---- MODULE Spec2Model ----
(***************************************************************************)
(* A model of the Google Maps listing scraper (src/google_maps.py) as it   *)
(* is driven by the executor (src/executor.py).                            *)
(*                                                                         *)
(* Spec follows one call of GoogleMapsScraper.run: the thread's position   *)
(* (pc), the scraper's fields, the locals of the functions on its stack,   *)
(* and the executor's _stop_flag, which is_running_check reads.  The       *)
(* thread is cut into one action per poll of is_running_check (the only    *)
(* shared datum it reads); the page contents, the outcome of every driver  *)
(* call and the moment of stop() are chosen by the environment.            *)
(*                                                                         *)
(* SpecCollect follows _collect_results alone, on result pages long        *)
(* enough for the MAX_STORES cap, and keeps the observed link counts.      *)
(***************************************************************************)
EXTENDS Integers, Sequences, FiniteSets, Bags, TLC

(* ------------------------------ bounds -------------------------------- *)
\* Longest keyword list handed to run.
MaxKeywords == 2
\* Most links of a result page in Spec (SpecCollect adds the long pages).
MaxLinks == 2
\* Scroll steps of one keyword during which the link count may still change.
MaxGrowth == 3
\* Largest link count a scroll step observes.
MaxCount == 2
\* Most post buttons on a detail page.
MaxPosts == 1
\* Most owner replies among the reviews read on a detail page.
MaxReplies == 1
\* Most review elements on the reviews tab (more than MAX_REVIEWS).
MaxReviewElements == 6
\* Most website candidates handed to _pick_best_url.
MaxUrls == 3
\* Most photo dates handed to _get_newest_photo_date.
MaxDates == 3
\* Most words and spaces of a photo author's name.
MaxAuthorLen == 3
\* Most window handles of the browser.
MaxTabs == 3
\* Most post buttons on a detail page in SpecUpdates (more than MAX_UPDATES).
MaxButtons == 6
\* Most requests the executor handles in SpecExecutor.
MaxTasks == 2
\* Most result and progress reports the scrapers make, all tasks together.
MaxReports == 1

(* ------------------------- program constants -------------------------- *)
MAX_REVIEWS == 5
MAX_UPDATES == 5
MAX_PHOTO_THUMBNAILS == 20
MAX_PHOTOS == 10
\* for scroll_attempt in range(15)
THUMB_SCROLLS == 15
\* if stable_count >= 3
THUMB_STABLE == 3
MAX_STORES == 100
\* for _ in range(60): the title poll budget of _extract_detail
TITLE_POLLS == 60
\* while stable < 5
STABLE_LIMIT == 5
\* a.get_attribute("href") or "": the href of a link that has none
EmptyHref == 0

Min(a, b) == IF a <= b THEN a ELSE b

(* ------------------------- values read from pages --------------------- *)
\* A text read from the page that the code later parses as a number: the
\* empty string, a numeric text (v: its value; ratings in tenths), or any
\* other text.
StrEmpty == [k |-> "empty", v |-> 0]
StrNum(n) == [k |-> "num", v |-> n]
StrText == [k |-> "text", v |-> 0]

\* photos["latest_date"]: "" | "N年前" (rel, y = N) | a text with 年前 but no
\* digits before it (nenmae) | "YYYY年MM月" (abs) | any other text.
DateEmpty == [k |-> "empty", y |-> 0, m |-> 0]
DateRel(n) == [k |-> "rel", y |-> n, m |-> 0]
DateNenMae == [k |-> "nenmae", y |-> 0, m |-> 0]
DateAbs(y, m) == [k |-> "abs", y |-> y, m |-> m]
DateOther == [k |-> "other", y |-> 0, m |-> 0]

(* ------------------------------ filters ------------------------------- *)
\* a mutant of Get: a missing key reads as 1
Get_DefaultOne(f, key, default) == IF key \in DOMAIN f THEN f[key] ELSE 1

\* filters.get(key, default)
Get(f, key, default) == IF key \in DOMAIN f THEN f[key] ELSE default

\* filters.get(key) followed by `if value:` (None and 0 are falsy)
Truthy(f, key) == key \in DOMAIN f /\ f[key] # 0

IsLeap(y) == (y % 4 = 0) /\ ((y % 100 # 0) \/ (y % 400 = 0))

DaysBeforeMonth(y, m) ==
    <<0, 31, 59, 90, 120, 151, 181, 212, 243, 273, 304, 334>>[m]
        + (IF m > 2 /\ IsLeap(y) THEN 1 ELSE 0)

\* datetime.toordinal of year y, month m, day d
Ordinal(y, m, d) ==
    (y - 1) * 365 + ((y - 1) \div 4) - ((y - 1) \div 100) + ((y - 1) \div 400)
        + DaysBeforeMonth(y, m) + d

\* datetime(year, month, 1) raises ValueError outside these ranges
ValidYearMonth(y, m) == y \in 1..9999 /\ m \in 1..12

\* a mutant of ReplyRejects: the two reply criteria are swapped
ReplyRejects_Swapped(data, f) ==
    LET reply_filter == Get(f, "reply", 0) IN
        \/ reply_filter = 2 /\ data.owner_reply_count = 0
        \/ reply_filter = 1 /\ data.owner_reply_count > 0

\* the reply check of _apply_filters
ReplyRejects(data, f) ==
    LET reply_filter == Get(f, "reply", 0) IN
        \/ reply_filter = 1 /\ data.owner_reply_count = 0
        \/ reply_filter = 2 /\ data.owner_reply_count > 0

\* a mutant of PhotoCheck: both criteria use the threshold of one year
PhotoCheck_OneYear(data, f, today) ==
    LET photo_filter == Get(f, "photo", 0)
        ld == data.latest_date
    IN  IF photo_filter \notin {1, 2} \/ ld.k = "empty" THEN "pass"
        ELSE IF ld.k = "rel" THEN (IF ld.y >= 1 THEN "reject" ELSE "pass")
        ELSE IF ld.k = "abs" THEN
            IF ~ValidYearMonth(ld.y, ld.m) THEN "raise"
            ELSE IF Ordinal(today.y, today.m, today.d) - Ordinal(ld.y, ld.m, 1) >= 365
                 THEN "reject" ELSE "pass"
        ELSE "pass"

\* the photo check of _apply_filters: "pass", "reject" or "raise"
PhotoCheck(data, f, today) ==
    LET photo_filter == Get(f, "photo", 0)
        ld == data.latest_date
        Over(years) == \/ photo_filter = 1 /\ years >= 1
                       \/ photo_filter = 2 /\ years >= 2
    IN  IF photo_filter \notin {1, 2} \/ ld.k = "empty" THEN "pass"
        ELSE IF ld.k = "rel" THEN (IF Over(ld.y) THEN "reject" ELSE "pass")
        ELSE IF ld.k = "abs" THEN
            IF ~ValidYearMonth(ld.y, ld.m) THEN "raise"
            ELSE LET days == Ordinal(today.y, today.m, today.d) - Ordinal(ld.y, ld.m, 1)
                 IN  \* years_diff = days / 365, compared with 1 and with 2
                     IF \/ photo_filter = 1 /\ days >= 365
                        \/ photo_filter = 2 /\ days >= 2 * 365
                     THEN "reject" ELSE "pass"
        ELSE "pass"

\* the min_rating check: float(rating or 0) < min_rating (tenths)
MinRatingRejects(data, f) ==
    /\ Truthy(f, "min_rating")
    /\ data.rating.k # "text"
    /\ (IF data.rating.k = "empty" THEN 0 ELSE data.rating.v) < f["min_rating"]

\* the max_reviews check: int(review_count or 0) > max_reviews
MaxReviewsRejects(data, f) ==
    /\ Truthy(f, "max_reviews")
    /\ data.review_count.k # "text"
    /\ (IF data.review_count.k = "empty" THEN 0 ELSE data.review_count.v) > f["max_reviews"]

\* _apply_filters: "accept", "reject", or "raise" (the ValueError of datetime)
ApplyFilters(data, f, today) ==
    IF ReplyRejects(data, f) THEN "reject"
    ELSE IF PhotoCheck(data, f, today) # "pass" THEN PhotoCheck(data, f, today)
    ELSE IF MinRatingRejects(data, f) THEN "reject"
    ELSE IF MaxReviewsRejects(data, f) THEN "reject"
    ELSE "accept"

(* --------------------------- result links ----------------------------- *)
\* A link of the result feed: its href (EmptyHref: none), its aria-label and
\* whether it carries the sponsored badge.
Link(h, n, s) == [href |-> h, name |-> n, sponsored |-> s]

\* a mutant of GetResultLinks: sponsored links are kept
GetResultLinks_All(page) == page

\* _get_result_links: the links without the sponsored badge, in page order
GetResultLinks(page) == SelectSeq(page, LAMBDA a : ~a.sponsored)

\* for a in links: href = a.get_attribute("href") or ""; the entry appended
\* for a, if any
Entry(a, seen_href) ==
    IF a.href = EmptyHref \/ a.href \in seen_href
    THEN <<>>
    ELSE <<[href |-> a.href, name |-> a.name]>>

RECURSIVE UniqueByHref(_, _)
\* the loop of _collect_results over the links, started with seen_href: the
\* second half of the links is walked with the hrefs the first half added
UniqueByHref(links, seen_href) ==
    IF links = <<>> THEN <<>>
    ELSE IF Len(links) = 1 THEN Entry(links[1], seen_href)
    ELSE LET half == Len(links) \div 2
             first == UniqueByHref(SubSeq(links, 1, half), seen_href)
             added == {first[k].href : k \in 1..Len(first)}
         IN  first \o UniqueByHref(SubSeq(links, half + 1, Len(links)),
                                   seen_href \cup added)

\* what _collect_results returns for the final page: results[:MAX_STORES]
CollectList(page) ==
    LET u == UniqueByHref(GetResultLinks(page), {})
    IN  SubSeq(u, 1, Min(Len(u), MAX_STORES))

(* ------------------------------- state -------------------------------- *)
VARIABLES
    pc,            \* position of the thread that executes run
    stop_flag,     \* ScrapingExecutor._stop_flag
    keywords,      \* run's argument: the keyword list
    filters,       \* run's argument: the filter criteria
    now,           \* datetime.now() of the run: [y, m, d]
    driver,        \* GoogleMapsScraper.driver: "None" or "open"
    result_count,  \* GoogleMapsScraper.result_count
    raising,       \* an exception is propagating out of run's try block
    ret,           \* the integer run returned (meaningful at pc = "returned")
    idx,           \* run: 1-based position in keywords
    results,       \* _search_keyword: the candidates of the current keyword
    seen,          \* _search_keyword: the keys accepted for dedup
    i,             \* _search_keyword: candidates of this keyword already left
    attempt,       \* _extract_detail: title polls done
    data,          \* _extract_detail: the record being built
    prev_count,    \* _collect_results
    stable,        \* _collect_results
    scrolls,       \* scroll steps done for this keyword, counted up to MaxGrowth
    posts,         \* _get_latest_updates: min(len(post_buttons), MAX_UPDATES)
    post_idx,      \* _get_latest_updates: loop index
    emitted,       \* history: the bag of the keys of the records handed to result_callback
    progress,      \* history: the calls of progress_callback for the current keyword
    navs,          \* history: the calls of driver.get for the current keyword (0: the
                   \* search page, n: the page of the n-th candidate)
    opened,        \* history: the browsers webdriver.Chrome started
    quits,         \* history: the calls of driver.quit
    polledFalse,   \* history: some poll of is_running_check returned false
    event,         \* history: what the last step did
    page,          \* SpecCollect: the links on the page when the list is read
    counts,        \* SpecCollect: the link counts the scroll steps observed
    args,          \* the arguments of the function a function-level specification follows
    result,        \* the value that function returned
    frame,         \* the locals of that function
    view,          \* what the detail page shows: "overview", "reviews" or "viewer"
    current_task_id,  \* ScrapingExecutor.current_task_id (0: None)
    is_running,       \* ScrapingExecutor._is_running
    current_scraper,  \* ScrapingExecutor._current_scraper: the task whose scraper
                      \* it holds (0: None)
    threads,       \* the threads handle_request started, by task_id
    reports        \* history: the calls of the client's send_* methods, by task_id

inputs == <<keywords, filters, now>>
scrollv == <<prev_count, stable, scrolls>>
postv == <<posts, post_idx>>
collectv == <<page, counts>>
unitv == <<args, result, frame, view>>
execv == <<current_task_id, is_running, current_scraper, threads, reports>>
itemv == <<results, seen, i, attempt, data>>
histv == <<emitted, progress, navs, opened, quits>>
vars == <<pc, stop_flag, keywords, filters, now, driver, result_count, raising,
          ret, idx, results, seen, i, attempt, data, prev_count, stable, scrolls,
          posts, post_idx, emitted, progress, navs, opened, quits, polledFalse,
          event,
          page, counts, args, result, frame, view,
          current_task_id, is_running, current_scraper, threads, reports>>

(* ------------------------------- inputs ------------------------------- *)
Titles == {"A", "B"}
Addresses == {"", "X"}
\* (review_count, rating) as _extract_review_count and _extract_rating
\* return them: no rating is looked up without a positive review count.
Ratings == {<<StrEmpty, StrEmpty>>, <<StrNum(3), StrNum(35)>>}
\* photos["latest_date"] as _get_photos returns it: "" or a "YYYY年MM月" text
PhotoDates == {DateEmpty, DateAbs(2026, 1), DateAbs(2020, 13)}
KeywordLists == {[k \in 1..n |-> k] : n \in 0..MaxKeywords}
FilterSets == {<<>>, [reply |-> 1, photo |-> 1, min_rating |-> 30]}
Today == [y |-> 2026, m |-> 11, d |-> 3]

NoData == [keyword |-> 0, title |-> "", rating |-> StrEmpty, review_count |-> StrEmpty,
           address |-> "", latest_date |-> DateEmpty, owner_reply_count |-> 0]

\* the executor's is_running closure: not self._stop_flag
is_running_check == ~stop_flag
\* _is_stopped
is_stopped == ~is_running_check

\* key = f"{data['title']}__{data['address']}"
Key(d) == d.title \o "__" \o d.address

\* ScrapingExecutor.__init__: no task, no thread, nothing reported.  The
\* executor's own steps are followed in SpecExecutor.
ExecutorIdle ==
    /\ current_task_id = 0
    /\ is_running = FALSE
    /\ current_scraper = 0
    /\ threads = <<>>
    /\ reports = <<>>

Init ==
    /\ pc = "start"
    /\ stop_flag = FALSE
    /\ ExecutorIdle
    /\ keywords \in KeywordLists
    /\ filters \in FilterSets
    /\ now = Today
    /\ driver = "None"
    /\ result_count = 0
    /\ raising = FALSE
    /\ ret = 0
    /\ idx = 1
    /\ results = <<>>
    /\ seen = {}
    /\ i = 0
    /\ attempt = 0
    /\ data = NoData
    /\ prev_count = -1
    /\ stable = 0
    /\ scrolls = 0
    /\ posts = 0
    /\ post_idx = 0
    /\ emitted = EmptyBag
    /\ progress = <<>>
    /\ navs = <<>>
    /\ opened = 0
    /\ quits = 0
    /\ polledFalse = FALSE
    /\ event = "init"
    /\ page = <<>>
    /\ counts = <<>>
    /\ args = <<>>
    /\ result = <<>>
    /\ frame = <<>>
    /\ view = "overview"

(* ------------------------- the environment ---------------------------- *)
\* ScrapingExecutor.stop sets the flag that is_running_check reads.  (That it
\* also quits the browser shows in Spec as driver calls that fail.)
stop ==
    /\ pc \notin {"returned", "raised", "collected"}
    /\ ~stop_flag
    /\ stop_flag' = TRUE
    /\ UNCHANGED <<pc, inputs, driver, result_count, raising, ret, idx, itemv,
                   scrollv, postv, histv, polledFalse, event, collectv, unitv, execv>>

(* ------------------------------- run ---------------------------------- *)
\* an exception leaves the try block of run: on to the finally clause
Propagate(ev) == pc' = "finally" /\ raising' = TRUE /\ event' = ev

\* run, up to the keyword loop: _init_browser succeeds, or raises before or
\* after self.driver is assigned
run_init ==
    /\ pc = "start"
    /\ result_count' = 0
    /\ \E o \in {"ok", "chrome_raises", "window_raises"} :
          /\ driver' = IF o = "chrome_raises" THEN "None" ELSE "open"
          /\ opened' = IF o = "chrome_raises" THEN opened ELSE opened + 1
          /\ IF o = "ok"
             THEN pc' = "keywords" /\ event' = "browser" /\ UNCHANGED raising
             ELSE Propagate(o)
    /\ UNCHANGED <<stop_flag, inputs, ret, idx, itemv, scrollv, postv, emitted,
                   progress, navs, quits, polledFalse, collectv, unitv, execv>>

\* _search_keyword returns: the keyword loop of run goes on
NextKeyword == pc' = "keywords" /\ idx' = idx + 1

\* a mutant of FeedMissing: the missing feed ends the keyword loop
FeedMissing_EndsRun == pc' = "finally" /\ idx' = idx /\ results' = <<>>

\* the feed never appears: _collect_results returns [] and _search_keyword
\* returns ("no results")
FeedMissing == NextKeyword /\ results' = <<>>

\* the head of run's keyword loop, and _search_keyword up to the scroll loop
\* of _collect_results
run_keyword ==
    /\ pc = "keywords"
    /\ IF idx > Len(keywords)
       THEN /\ pc' = "finally" /\ event' = "keywords_done"
            /\ UNCHANGED <<idx, polledFalse, navs, progress, results, scrollv>>
       ELSE IF ~is_running_check
       THEN /\ pc' = "finally" /\ event' = "stopped_keywords"
            /\ polledFalse' = TRUE
            /\ UNCHANGED <<idx, navs, progress, results, scrollv>>
       ELSE /\ navs' = <<0>>
            /\ progress' = <<>>
            /\ UNCHANGED polledFalse
            /\ \E o \in {"search_get_fails", "feed_timeout", "feed"} :
                  /\ event' = o
                  /\ IF o = "feed"
                     THEN /\ pc' = "scroll" /\ UNCHANGED <<idx, results>>
                          /\ prev_count' = -1 /\ stable' = 0 /\ scrolls' = 0
                     ELSE IF o = "feed_timeout"
                     THEN FeedMissing /\ UNCHANGED scrollv
                     ELSE NextKeyword /\ UNCHANGED <<results, scrollv>>
    /\ UNCHANGED <<stop_flag, inputs, driver, result_count, raising, ret, seen, i,
                   attempt, data, postv, emitted, opened, quits, collectv, unitv, execv>>

\* a mutant of StableAfter: a changed count does not reset the streak
StableAfter_NoReset(st, prev, count) == IF count = prev THEN st + 1 ELSE st

\* stable after a scroll step that counted `count` links
StableAfter(st, prev, count) == IF count = prev THEN st + 1 ELSE 0

\* the loop of _collect_results goes on
ScrollAgain(st) == st < STABLE_LIMIT

\* the link counts a scroll step can observe: the page stops changing after
\* MaxGrowth steps
Observable == {c \in 0..MaxCount : scrolls < MaxGrowth \/ c = prev_count}

\* one iteration of the scroll loop of _collect_results
ScrollStep(count) ==
    /\ stable' = StableAfter(stable, prev_count, count)
    /\ prev_count' = count
    /\ scrolls' = Min(scrolls + 1, MaxGrowth)
    /\ pc' = IF ScrollAgain(stable') THEN "scroll" ELSE "links"
    /\ event' = "scrolled"

\* the head of the scroll loop: the poll, then the scroll step (or the
\* script or the link query raises)
ScrollLoop ==
    /\ pc = "scroll"
    /\ IF ~is_running_check
       THEN /\ pc' = "links" /\ event' = "stopped_scroll"
            /\ polledFalse' = TRUE
            /\ UNCHANGED <<scrollv, raising>>
       ELSE /\ UNCHANGED polledFalse
            /\ \/ /\ Propagate("scroll_raises")
                  /\ UNCHANGED scrollv
               \/ /\ \E count \in Observable : ScrollStep(count)
                  /\ UNCHANGED raising
    /\ UNCHANGED <<stop_flag, inputs, driver, result_count, ret, idx, itemv, postv,
                   histv>>

collect_scroll == ScrollLoop /\ UNCHANGED <<collectv, unitv, execv>>

\* the hrefs of the result pages of Spec (and the link without href)
Hrefs == {EmptyHref, 1, 2}
\* the pages of Spec: up to MaxLinks links, each labelled like its href
PagesOfLength(n) ==
    {[k \in 1..n |-> Link(h[k], h[k], s[k])] :
        h \in [1..n -> Hrefs], s \in [1..n -> BOOLEAN]}
Pages == UNION {PagesOfLength(n) : n \in 0..MaxLinks}

\* _search_keyword with the list _collect_results returned
SearchResults(list) ==
    /\ results' = list
    /\ IF list = <<>>
       THEN NextKeyword /\ UNCHANGED <<seen, i>>
       ELSE pc' = "items" /\ seen' = {} /\ i' = 0 /\ UNCHANGED idx

\* the end of _collect_results: the links are read once more, or reading
\* them raises
collect_links ==
    /\ pc = "links"
    /\ \/ /\ Propagate("links_raise")
          /\ UNCHANGED <<results, seen, i, idx>>
       \/ /\ \E p \in Pages : SearchResults(CollectList(p))
          /\ event' = "collected"
          /\ UNCHANGED raising
    /\ prev_count' = -1 /\ stable' = 0 /\ scrolls' = 0
    /\ UNCHANGED <<stop_flag, inputs, driver, result_count, ret, attempt, data,
                   postv, histv, polledFalse, collectv, unitv, execv>>

(* ------------------------- the per-item loop -------------------------- *)
\* `continue` in the loop of _search_keyword (also: _extract_detail
\* returned None)
NextItem(ev) ==
    /\ pc' = "items" /\ i' = i + 1 /\ attempt' = 0 /\ data' = NoData
    /\ event' = ev

\* a mutant of ProgressArgs: the 0-based index is reported
ProgressArgs_ZeroBased(n, total) == [cur |-> n, total |-> total]

\* the arguments of the progress callback for the candidate at 0-based index n
ProgressArgs(n, total) == [cur |-> n + 1, total |-> total]

\* the head of the loop over the candidates: the poll, the progress
\* callback and the navigation to the candidate's page
search_item ==
    /\ pc = "items"
    /\ IF i >= Len(results)
       THEN /\ NextKeyword /\ event' = "items_done"
            /\ UNCHANGED <<polledFalse, progress, navs, raising, i, attempt, data>>
       ELSE IF ~is_running_check
       THEN /\ NextKeyword /\ event' = "stopped_items"
            /\ polledFalse' = TRUE
            /\ UNCHANGED <<progress, navs, raising, i, attempt, data>>
       ELSE /\ UNCHANGED <<polledFalse, idx>>
            /\ progress' = Append(progress, ProgressArgs(i, Len(results)))
            /\ \/ /\ Propagate("progress_raises")
                  /\ UNCHANGED <<navs, i, attempt, data>>
               \/ /\ navs' = Append(navs, i + 1)
                  /\ UNCHANGED raising
                  /\ \/ NextItem("get_fails")
                     \/ /\ pc' = "title" /\ event' = "opened"
                        /\ attempt' = 0
                        /\ data' = [NoData EXCEPT !.keyword = keywords[idx]]
                        /\ UNCHANGED i
    /\ UNCHANGED <<stop_flag, inputs, driver, result_count, ret, results, seen,
                   scrollv, postv, emitted, opened, quits, collectv, unitv, execv>>

(* --------------------------- _extract_detail -------------------------- *)
\* one poll for the title, of at most TITLE_POLLS
detail_title ==
    /\ pc = "title"
    /\ attempt < TITLE_POLLS
    /\ IF is_stopped
       THEN /\ NextItem("stopped_title")
            /\ polledFalse' = TRUE
       ELSE /\ UNCHANGED <<polledFalse, i>>
            /\ \/ \E t \in Titles :
                     /\ data' = [data EXCEPT !.title = t]
                     /\ pc' = "titled" /\ event' = "title_found"
                     /\ attempt' = 0
               \/ /\ IF attempt + 1 < TITLE_POLLS
                     THEN pc' = "title" /\ attempt' = attempt + 1
                     ELSE pc' = "titled" /\ attempt' = 0
                  /\ event' = "no_title"
                  /\ UNCHANGED data
    /\ UNCHANGED <<stop_flag, inputs, driver, result_count, raising, ret, idx,
                   results, seen, scrollv, postv, histv, collectv, unitv, execv>>

\* `if not title or self._is_stopped(): return None`, then the review count,
\* the rating, the category and the contact data
detail_fields ==
    /\ pc = "titled"
    /\ IF data.title = ""
       THEN NextItem("title_timeout") /\ UNCHANGED <<polledFalse, raising>>
       ELSE IF is_stopped
       THEN NextItem("stopped_titled") /\ polledFalse' = TRUE /\ UNCHANGED raising
       ELSE /\ UNCHANGED <<polledFalse, i, attempt>>
            /\ \/ Propagate("contact_raises") /\ UNCHANGED data
               \/ /\ \E r \in Ratings, a \in Addresses :
                       data' = [data EXCEPT !.review_count = r[1],
                                            !.rating = r[2], !.address = a]
                  /\ pc' = "before_photos" /\ event' = "fields"
                  /\ UNCHANGED raising
    /\ UNCHANGED <<stop_flag, inputs, driver, result_count, ret, idx, results,
                   seen, scrollv, postv, histv, collectv, unitv, execv>>

\* a check `if self._is_stopped(): return None` between two extractors
StopCheck(at, next, ev) ==
    /\ pc = at
    /\ IF is_stopped
       THEN NextItem(ev) /\ polledFalse' = TRUE
       ELSE /\ pc' = next /\ event' = "running"
            /\ UNCHANGED <<polledFalse, i, attempt, data>>
    /\ UNCHANGED <<stop_flag, inputs, driver, result_count, raising, ret, idx,
                   results, seen, scrollv, postv, histv, collectv, unitv, execv>>

detail_before_photos == StopCheck("before_photos", "photos", "stopped_before_photos")
detail_before_reviews == StopCheck("before_reviews", "reviews", "stopped_before_reviews")
detail_before_updates == StopCheck("before_updates", "updates", "stopped_before_updates")

\* an extractor step of _extract_detail that leaves everything but the
\* record alone
ExtractorFrame ==
    UNCHANGED <<stop_flag, inputs, driver, result_count, raising, ret, idx,
                results, seen, i, attempt, scrollv, histv, collectv, unitv, execv>>

\* _get_photos up to the opening of the photo viewer
photos_open ==
    /\ pc = "photos"
    /\ IF is_stopped
       THEN /\ pc' = "before_reviews" /\ event' = "stopped_photos"
            /\ polledFalse' = TRUE
       ELSE /\ UNCHANGED polledFalse
            /\ \/ pc' = "before_reviews" /\ event' = "no_viewer"
               \/ pc' = "viewer" /\ event' = "viewer"
    /\ UNCHANGED <<data, postv>>
    /\ ExtractorFrame

\* _get_photos in the viewer: the polls of the thumbnail loop and of the
\* per-photo loop, and the date of the newest photo it returns
photos_viewer ==
    /\ pc = "viewer"
    /\ pc' = "before_reviews"
    /\ IF is_stopped
       THEN /\ polledFalse' = TRUE /\ event' = "stopped_viewer"
            /\ UNCHANGED data
       ELSE /\ UNCHANGED polledFalse
            /\ event' = "photos"
            /\ \E d \in PhotoDates : data' = [data EXCEPT !.latest_date = d]
    /\ UNCHANGED postv
    /\ ExtractorFrame

\* _get_reviews up to the click on the reviews tab
reviews_open ==
    /\ pc = "reviews"
    /\ IF is_stopped
       THEN /\ pc' = "before_updates" /\ event' = "stopped_reviews"
            /\ polledFalse' = TRUE
       ELSE /\ UNCHANGED polledFalse
            /\ \/ pc' = "before_updates" /\ event' = "no_reviews_tab"
               \/ pc' = "reviews_tab" /\ event' = "reviews_tab"
    /\ UNCHANGED <<data, postv>>
    /\ ExtractorFrame

\* _get_reviews on the reviews tab: the poll, then the reviews are read
reviews_read ==
    /\ pc = "reviews_tab"
    /\ pc' = "before_updates"
    /\ IF is_stopped
       THEN /\ polledFalse' = TRUE /\ event' = "stopped_reviews_tab"
            /\ UNCHANGED data
       ELSE /\ UNCHANGED polledFalse
            /\ event' = "reviews"
            /\ \E n \in 0..MaxReplies : data' = [data EXCEPT !.owner_reply_count = n]
    /\ UNCHANGED postv
    /\ ExtractorFrame

\* _get_latest_updates up to its loop
updates_open ==
    /\ pc = "updates"
    /\ IF is_stopped
       THEN /\ pc' = "record" /\ event' = "stopped_updates"
            /\ polledFalse' = TRUE
            /\ UNCHANGED postv
       ELSE /\ UNCHANGED polledFalse
            /\ pc' = "posts" /\ event' = "post_buttons"
            /\ post_idx' = 0
            /\ \E n \in 0..MaxPosts : posts' = Min(n, MAX_UPDATES)
    /\ UNCHANGED data
    /\ ExtractorFrame

\* one iteration of the loop of _get_latest_updates over the posts
updates_post ==
    /\ pc = "posts"
    /\ IF post_idx >= posts
       THEN /\ pc' = "record" /\ event' = "posts_done"
            /\ posts' = 0 /\ post_idx' = 0 /\ UNCHANGED polledFalse
       ELSE IF is_stopped
       THEN /\ pc' = "record" /\ event' = "stopped_posts"
            /\ posts' = 0 /\ post_idx' = 0 /\ polledFalse' = TRUE
       ELSE /\ pc' = "posts" /\ event' = "post"
            /\ post_idx' = post_idx + 1 /\ UNCHANGED <<polledFalse, posts>>
    /\ UNCHANGED data
    /\ ExtractorFrame

(* ------------------ _search_keyword with a record --------------------- *)
\* a mutant of Counted: the increment is forgotten
Counted_Forgotten(n) == n

\* self.result_count += 1
Counted(n) == n + 1

\* a mutant of Verdict: the filters are not consulted
Verdict_Unfiltered(d) == "accept"

\* self._apply_filters(data, filters) as _search_keyword calls it
Verdict(d) == ApplyFilters(d, filters, now)

\* the emitted history after result_callback(data)
Emitted(d) == emitted (+) SetToBag({Key(d)})

\* _extract_detail returned the record: duplicate check, filters, count and
\* result callback
search_record ==
    /\ pc = "record"
    /\ IF Key(data) \in seen
       THEN /\ NextItem("duplicate")
            /\ UNCHANGED <<seen, result_count, emitted, raising>>
       ELSE /\ seen' = seen \cup {Key(data)}
            /\ LET verdict == Verdict(data) IN
               IF verdict = "reject"
               THEN /\ NextItem("filtered")
                    /\ UNCHANGED <<result_count, emitted, raising>>
               ELSE IF verdict = "raise"
               THEN /\ Propagate("filter_raises")
                    /\ UNCHANGED <<result_count, emitted, i, attempt, data>>
               ELSE /\ result_count' = Counted(result_count)
                    /\ emitted' = Emitted(data)
                    /\ \/ NextItem("emitted") /\ UNCHANGED raising
                       \/ /\ Propagate("result_raises")
                          /\ UNCHANGED <<i, attempt, data>>
    /\ UNCHANGED <<stop_flag, inputs, driver, ret, idx, results, scrollv, postv,
                   progress, navs, opened, quits, polledFalse, collectv, unitv, execv>>

(* ------------------------------ finally ------------------------------- *)
\* a mutant of CloseBrowser: the handle is kept after quit
CloseBrowser_KeepsHandle ==
    /\ quits' = IF driver # "None" THEN quits + 1 ELSE quits
    /\ driver' = driver

\* _close_browser: the driver, if any, is quit (a failure of quit is
\* swallowed) and the handle dropped
CloseBrowser ==
    /\ quits' = IF driver # "None" THEN quits + 1 ELSE quits
    /\ driver' = "None"

\* the finally clause of run, then run returns result_count or the
\* exception goes on to the caller
run_finally ==
    /\ pc = "finally"
    /\ CloseBrowser
    /\ IF raising
       THEN pc' = "raised" /\ UNCHANGED ret
       ELSE pc' = "returned" /\ ret' = result_count
    /\ \E quit_ok \in BOOLEAN : event' = IF quit_ok THEN "closed" ELSE "quit_failed"
    /\ UNCHANGED <<stop_flag, inputs, result_count, raising, idx, itemv, scrollv,
                   postv, emitted, progress, navs, opened, polledFalse, collectv, unitv, execv>>

Next ==
    \/ stop
    \/ run_init
    \/ run_keyword
    \/ collect_scroll
    \/ collect_links
    \/ search_item
    \/ detail_title
    \/ detail_fields
    \/ detail_before_photos
    \/ photos_open
    \/ photos_viewer
    \/ detail_before_reviews
    \/ reviews_open
    \/ reviews_read
    \/ detail_before_updates
    \/ updates_open
    \/ updates_post
    \/ search_record
    \/ run_finally

Spec == Init /\ [][Next]_vars

(* ------------------- _collect_results on its own ---------------------- *)
\* A result page of SpecCollect: n links named by their position, all with
\* different hrefs but the one at dupAt, which repeats the first link's
\* href, and none sponsored but the one at spAt.
LongPage(n, dupAt, spAt) ==
    [k \in 1..n |-> Link(IF k = dupAt THEN 1 ELSE k, k, k = spAt)]

LongPages ==
    {LongPage(n, dupAt, spAt) :
        n \in (MAX_STORES - 1)..(MAX_STORES + 3), dupAt \in {0, 2, MAX_STORES},
        spAt \in {0, 1, MAX_STORES}}

ShortPagesOfLength(n) ==
    {[k \in 1..n |-> Link(h[k], k, s[k])] :
        h \in [1..n -> Hrefs], s \in [1..n -> BOOLEAN]}

CollectPages == LongPages \cup UNION {ShortPagesOfLength(n) : n \in 0..MaxLinks}

InitCollect ==
    /\ pc = "feed"
    /\ stop_flag = FALSE
    /\ ExecutorIdle
    /\ keywords = <<1>>
    /\ filters = <<>>
    /\ now = Today
    /\ driver = "open"
    /\ result_count = 0
    /\ raising = FALSE
    /\ ret = 0
    /\ idx = 1
    /\ results = <<>>
    /\ seen = {}
    /\ i = 0
    /\ attempt = 0
    /\ data = NoData
    /\ prev_count = -1
    /\ stable = 0
    /\ scrolls = 0
    /\ posts = 0
    /\ post_idx = 0
    /\ emitted = EmptyBag
    /\ progress = <<>>
    /\ navs = <<>>
    /\ opened = 1
    /\ quits = 0
    /\ polledFalse = FALSE
    /\ event = "init"
    /\ page = <<>>
    /\ counts = <<>>
    /\ args = <<>>
    /\ result = <<>>
    /\ frame = <<>>
    /\ view = "overview"

\* _wait_for_scroll_area: the feed is found, or the wait times out and
\* _collect_results returns []
feed_wait ==
    /\ pc = "feed"
    /\ \/ pc' = "scroll" /\ event' = "feed" /\ UNCHANGED results
       \/ pc' = "collected" /\ event' = "feed_timeout" /\ results' = <<>>
    /\ UNCHANGED <<stop_flag, inputs, driver, result_count, raising, ret, idx, seen,
                   i, attempt, data, scrollv, postv, histv, polledFalse, collectv, unitv, execv>>

\* the scroll loop, with the observed count kept
scroll_observed ==
    /\ ScrollLoop
    /\ counts' = IF event' = "scrolled" THEN Append(counts, prev_count') ELSE counts
    /\ UNCHANGED <<page, unitv, execv>>

\* the end of _collect_results: the list it returns for the page it reads
links_read ==
    /\ pc = "links"
    /\ \/ /\ Propagate("links_raise")
          /\ UNCHANGED <<results, page>>
       \/ /\ \E p \in CollectPages : page' = p /\ results' = CollectList(p)
          /\ pc' = "collected" /\ event' = "collected"
          /\ UNCHANGED raising
    /\ UNCHANGED <<stop_flag, inputs, driver, result_count, ret, idx, seen, i,
                   attempt, data, scrollv, postv, histv, polledFalse, counts, unitv, execv>>

NextCollect ==
    \/ stop
    \/ feed_wait
    \/ scroll_observed
    \/ links_read

SpecCollect == InitCollect /\ [][NextCollect]_vars

(* --------------------- function-level specifications ------------------ *)
\* what a specification of one function leaves alone: the thread of run
callerv == <<keywords, driver, result_count, raising, ret, idx, results, seen, i,
             attempt, scrollv, postv, histv, collectv, execv>>
restv == <<stop_flag, polledFalse, callerv>>

\* the thread of run is inside _search_keyword with the browser open
AtRest ==
    /\ stop_flag = FALSE
    /\ ExecutorIdle
    /\ keywords = <<1>>
    /\ driver = "open"
    /\ result_count = 0
    /\ raising = FALSE
    /\ ret = 0
    /\ idx = 1
    /\ results = <<>>
    /\ seen = {}
    /\ i = 0
    /\ attempt = 0
    /\ prev_count = -1
    /\ stable = 0
    /\ scrolls = 0
    /\ posts = 0
    /\ post_idx = 0
    /\ emitted = EmptyBag
    /\ progress = <<>>
    /\ navs = <<>>
    /\ opened = 1
    /\ quits = 0
    /\ polledFalse = FALSE
    /\ page = <<>>
    /\ counts = <<>>

(* ------------------------ _apply_filters on its own ------------------- *)
\* the criteria keys _apply_filters reads
FilterKeys == {"reply", "photo", "min_rating", "max_reviews"}

\* a key that is absent or has one of the values
OptKey(key, values) == {<<>>} \cup {key :> v : v \in values}

\* the criteria of SpecFilters: every key absent or present, "area" a key
\* _apply_filters does not know
Criteria ==
    {a @@ b @@ c @@ d @@ e :
        a \in OptKey("reply", 0..3), b \in OptKey("photo", 0..3),
        c \in OptKey("min_rating", {0, 30}), d \in OptKey("max_reviews", {0, 5}),
        e \in OptKey("area", {1})}

\* the latest photo dates of SpecFilters, around both thresholds for Today
FilterDates ==
    {DateEmpty, DateRel(0), DateRel(1), DateRel(2), DateNenMae, DateOther,
     DateAbs(2025, 11), DateAbs(2025, 12), DateAbs(2024, 11), DateAbs(2024, 12),
     DateAbs(2020, 13)}

\* the records of SpecFilters
FilterRecords ==
    {[NoData EXCEPT !.title = "A", !.owner_reply_count = n, !.latest_date = d,
                    !.rating = r, !.review_count = c] :
        n \in 0..MaxReplies, d \in FilterDates,
        r \in {StrEmpty, StrNum(25), StrNum(35), StrText},
        c \in {StrEmpty, StrNum(5), StrNum(9), StrText}}

\* the criteria f without the keys outside `keys`
Only(f, keys) == [k \in DOMAIN f \cap keys |-> f[k]]

InitFilters ==
    /\ AtRest
    /\ pc = "filter_call"
    /\ filters \in Criteria
    /\ data \in FilterRecords
    /\ now = Today
    /\ event = "init"
    /\ args = <<>>
    /\ result = <<>>
    /\ frame = <<>>
    /\ view = "overview"

\* self._apply_filters(data, filters)
apply_filters ==
    /\ pc = "filter_call"
    /\ result' = ApplyFilters(data, filters, now)
    /\ pc' = "filter_done"
    /\ event' = "filtered"
    /\ UNCHANGED <<restv, filters, data, now, args, frame, view>>

NextFilters == apply_filters

SpecFilters == InitFilters /\ [][NextFilters]_vars

(* ------------------------- _get_reviews on its own -------------------- *)
\* the ratio strings: f"{a}/{b}" and "0%"
Fraction(a, b) == [form |-> "/", a |-> a, b |-> b]
Percent(n) == [form |-> "%", a |-> n, b |-> 100]

\* the tuple _get_reviews returns (reviews: the number of review strings)
ReviewsReturn(reviews, owner_reply_count, total_review_count, reply_ratio) ==
    [reviews |-> reviews, owner_reply_count |-> owner_reply_count,
     total_review_count |-> total_review_count, reply_ratio |-> reply_ratio]

\* `return reviews, 0, 0, "0%"`
EarlyReturn == ReviewsReturn(0, 0, 0, Percent(0))

\* the reply_ratio computed at the end of _get_reviews
ReplyRatio(owner_reply_count, total_review_count) ==
    IF total_review_count > 0
    THEN Fraction(owner_reply_count, total_review_count)
    ELSE Fraction(0, 0)

\* the end of _get_reviews with the locals of frame f
FinalReturn(f) ==
    ReviewsReturn(f.reviews, f.owner_reply_count, f.total_review_count,
                  ReplyRatio(f.owner_reply_count, f.total_review_count))

\* the locals of _get_reviews at its start
ReviewsLocals ==
    [review_elements |-> <<>>, pos |-> 0, reviews |-> 0, owner_reply_count |-> 0,
     total_review_count |-> 0]

\* a review element: with an owner reply, without one, or one whose reads
\* raise (its iteration ends in `except: continue`)
ReviewKinds == {"replied", "plain", "broken"}

ReviewPages == UNION {[1..n -> ReviewKinds] : n \in 0..MaxReviewElements}

InitReviews ==
    /\ AtRest
    /\ pc = "rv_call"
    /\ filters = <<>>
    /\ data = NoData
    /\ now = Today
    /\ event = "init"
    /\ args = <<>>
    /\ result = <<>>
    /\ frame = ReviewsLocals
    /\ view = "overview"

\* _get_reviews up to the click on the reviews tab
rv_enter ==
    /\ pc = "rv_call"
    /\ IF is_stopped
       THEN /\ result' = EarlyReturn /\ pc' = "rv_done"
            /\ event' = "stopped_reviews" /\ polledFalse' = TRUE
            /\ UNCHANGED view
       ELSE /\ UNCHANGED polledFalse
            /\ \/ /\ event' = "tabs_raise" /\ pc' = "rv_done"
                  /\ result' = FinalReturn(frame) /\ UNCHANGED view
               \/ /\ event' = "no_reviews_tab" /\ pc' = "rv_done"
                  /\ result' = EarlyReturn /\ UNCHANGED view
               \/ /\ event' = "click_raises" /\ pc' = "rv_done"
                  /\ result' = FinalReturn(frame)
                  /\ view' \in {"overview", "reviews"}
               \/ /\ event' = "reviews_tab" /\ pc' = "rv_tab"
                  /\ view' = "reviews" /\ UNCHANGED result
    /\ UNCHANGED <<stop_flag, callerv, filters, data, now, args, frame>>

\* `if not review_tab_found or self._is_stopped()`, the scrolling, the
\* "more" buttons and the review elements found
rv_tab ==
    /\ pc = "rv_tab"
    /\ IF is_stopped
       THEN /\ result' = EarlyReturn /\ pc' = "rv_done"
            /\ event' = "stopped_reviews_tab" /\ polledFalse' = TRUE
            /\ UNCHANGED frame
       ELSE /\ UNCHANGED polledFalse
            /\ \/ /\ event' = "scroll_raises" /\ pc' = "rv_done"
                  /\ result' = FinalReturn(frame) /\ UNCHANGED frame
               \/ /\ \E els \in ReviewPages :
                        frame' = [frame EXCEPT
                                     !.review_elements = els,
                                     !.total_review_count = Min(Len(els), MAX_REVIEWS)]
                  /\ event' = "review_elements" /\ pc' = "rv_loop"
                  /\ UNCHANGED result
    /\ UNCHANGED <<stop_flag, callerv, filters, data, now, args, view>>

\* a mutant of AfterReview: a broken element still yields a review string
AfterReview_KeepsBroken(f, k) ==
    [f EXCEPT !.pos = @ + 1,
              !.owner_reply_count = IF k = "replied" THEN @ + 1 ELSE @,
              !.reviews = @ + 2]

\* the locals after the iteration of the review loop for an element of kind k
AfterReview(f, k) ==
    [f EXCEPT !.pos = @ + 1,
              !.owner_reply_count = IF k = "replied" THEN @ + 1 ELSE @,
              !.reviews = IF k = "broken" THEN @ ELSE @ + 1]

\* one iteration of `for review_el in review_elements[:MAX_REVIEWS]`
rv_item ==
    /\ pc = "rv_loop"
    /\ frame.pos < Min(Len(frame.review_elements), MAX_REVIEWS)
    /\ frame' = AfterReview(frame, frame.review_elements[frame.pos + 1])
    /\ event' = "review"
    /\ UNCHANGED <<pc, restv, filters, data, now, args, result, view>>

\* after the loop: back to the overview tab, the ratio and the return
rv_return ==
    /\ pc = "rv_loop"
    /\ frame.pos >= Min(Len(frame.review_elements), MAX_REVIEWS)
    /\ \/ event' = "tabs_raise" /\ UNCHANGED view
       \/ event' = "no_overview_tab" /\ UNCHANGED view
       \/ event' = "overview_tab" /\ view' = "overview"
    /\ result' = FinalReturn(frame)
    /\ pc' = "rv_done"
    /\ UNCHANGED <<restv, filters, data, now, args, frame>>

NextReviews ==
    \/ stop
    \/ rv_enter
    \/ rv_tab
    \/ rv_item
    \/ rv_return

SpecReviews == InitReviews /\ [][NextReviews]_vars

(* ------------------------ _pick_best_url on its own ------------------- *)
\* A URL text by the parts urlsplit finds in it: scheme ("": none), host and
\* port (":8080" or "": none), which together are the netloc, path, query,
\* and for a query "q=" the position in Targets of the URL it carries.
Url(scheme, host, port, path, query, q) ==
    [scheme |-> scheme, host |-> host, port |-> port, path |-> path,
     query |-> query, q |-> q]

\* the empty string
EmptyUrl == Url("", "", "", "", "", 0)

\* the URLs a Google redirect link of the candidates carries in q=
Targets ==
    <<Url("https", "cc.jp", "", "/", "", 0),
      Url("https", "business.google.com", "", "/create", "", 0)>>

\* the website candidates: a bare domain, plain links, a link with a port,
\* claim links by path and by query, redirect links, the empty string
Candidates ==
    {Url("", "a.jp", "", "", "", 0),
     Url("https", "bb.jp", "", "/", "", 0),
     Url("http", "dd.jp", "", "/", "", 0),
     Url("https", "a.jp", ":8080", "/", "", 0),
     Url("https", "business.google.com", "", "/create", "", 0),
     Url("https", "e.jp", "", "/", "gmbsrc=", 0),
     Url("", "e.jp", "", "/", "ppsrc=GMBMI", 0),
     Url("https", "www.google.com", "", "/url", "q=", 1),
     Url("https", "www.google.com", "", "/url", "q=", 2),
     EmptyUrl}

\* urlparse(u).netloc
Netloc(u) == u.host \o u.port

\* parts.netloc.endswith("google.com")
EndsWithGoogle(u) == u.port = "" /\ u.host \in {"www.google.com", "business.google.com"}

\* _normalize_url: a Google redirect is replaced by its q parameter, a text
\* without scheme gets "http://"; urlsplit finds a netloc only after "//"
NormalizeUrl(s) ==
    IF s = EmptyUrl THEN EmptyUrl
    ELSE LET t == IF /\ s.scheme # "" /\ EndsWithGoogle(s)
                     /\ s.path = "/url" /\ s.query = "q=" /\ s.q # 0
                  THEN Targets[s.q] ELSE s
         IN  IF t.scheme \in {"http", "https"} THEN t
             ELSE [t EXCEPT !.scheme = "http"]

\* _is_claim_link
IsClaimLink(url) ==
    /\ url # EmptyUrl
    /\ \/ url.host = "business.google.com" /\ url.path = "/create"
       \/ url.query \in {"gmbsrc=", "ppsrc=GMBMI"}

\* the sort key of _pick_best_url: len(urlparse(u).netloc or u)
SortKey(u) == Len(Netloc(u))

\* the list `cleaned` of _pick_best_url
Cleaned(urls) ==
    SelectSeq([k \in 1..Len(urls) |-> NormalizeUrl(urls[k])],
              LAMBDA nu : nu # EmptyUrl /\ ~IsClaimLink(nu))

\* _pick_best_url: the first element of the stable sort of cleaned by the key
PickBestUrl(urls) ==
    LET cleaned == Cleaned(urls) IN
        IF cleaned = <<>> THEN EmptyUrl
        ELSE cleaned[CHOOSE k \in 1..Len(cleaned) :
                        \A j \in 1..Len(cleaned) :
                            /\ SortKey(cleaned[k]) <= SortKey(cleaned[j])
                            /\ j < k => SortKey(cleaned[j]) > SortKey(cleaned[k])]

InitUrl ==
    /\ AtRest
    /\ pc = "url_call"
    /\ filters = <<>>
    /\ data = NoData
    /\ now = Today
    /\ event = "init"
    /\ args \in UNION {[1..n -> Candidates] : n \in 0..MaxUrls}
    /\ result = EmptyUrl
    /\ frame = <<>>
    /\ view = "overview"

\* self._pick_best_url(website_candidates)
pick_best_url ==
    /\ pc = "url_call"
    /\ result' = PickBestUrl(args)
    /\ pc' = "url_done"
    /\ event' = "picked"
    /\ UNCHANGED <<restv, filters, data, now, args, frame, view>>

NextUrl == pick_best_url

SpecUrl == InitUrl /\ [][NextUrl]_vars

(* -------------------- _get_newest_photo_date on its own --------------- *)
\* date_to_num: year * 12 + month of a "YYYY年MM月" text, 0 for any other
DateToNum(date_str) ==
    IF date_str.k = "abs" THEN date_str.y * 12 + date_str.m ELSE 0

\* a mutant of InsertDescending: x goes before the elements of equal key
InsertDescending_BeforeEqual(sorted, x) ==
    LET before == SelectSeq(sorted, LAMBDA e : DateToNum(e) > DateToNum(x))
        after == SelectSeq(sorted, LAMBDA e : DateToNum(e) <= DateToNum(x))
    IN  before \o <<x>> \o after

\* one more element in a list sorted by descending key: the sort is stable,
\* so x goes behind the elements of equal key that came before it
InsertDescending(sorted, x) ==
    LET before == SelectSeq(sorted, LAMBDA e : DateToNum(e) >= DateToNum(x))
        after == SelectSeq(sorted, LAMBDA e : DateToNum(e) < DateToNum(x))
    IN  before \o <<x>> \o after

RECURSIVE SortedDates(_)
\* sorted(dates, key=date_to_num, reverse=True)
SortedDates(dates) ==
    IF dates = <<>> THEN <<>>
    ELSE InsertDescending(SortedDates(SubSeq(dates, 1, Len(dates) - 1)),
                          dates[Len(dates)])

\* _get_newest_photo_date
NewestPhotoDate(dates) ==
    IF dates = <<>> THEN DateEmpty ELSE Head(SortedDates(dates))

\* the dates of SpecPhotoDate; "2022年13月" and "2023年1月" have the same key
DateTexts ==
    {DateAbs(2021, 3), DateAbs(2023, 11), DateAbs(2022, 1), DateAbs(2023, 1),
     DateAbs(2022, 13)}

InitPhotoDate ==
    /\ AtRest
    /\ pc = "date_call"
    /\ filters = <<>>
    /\ data = NoData
    /\ now = Today
    /\ event = "init"
    /\ args \in UNION {[1..n -> DateTexts] : n \in 0..MaxDates}
    /\ result = DateEmpty
    /\ frame = <<>>
    /\ view = "overview"

\* self._get_newest_photo_date(all_dates)
newest_photo_date ==
    /\ pc = "date_call"
    /\ result' = NewestPhotoDate(args)
    /\ pc' = "date_done"
    /\ event' = "newest"
    /\ UNCHANGED <<restv, filters, data, now, args, frame, view>>

NextPhotoDate == newest_photo_date

SpecPhotoDate == InitPhotoDate /\ [][NextPhotoDate]_vars

(* ---------------- the owner test of _get_photos on its own ------------ *)
\* A text is a sequence of pieces: words, the space " " and the ideographic
\* space (U+3000, written "U+3000").
WideSpace == "U+3000"
\* the word ストリートビュー (street view)
StreetViewJa == "sutoriitobyuu"
\* the word 株式会社 (a company form)
Kabushiki == "kabushikigaisha"

\* str.lower on one piece
LowerPiece(c) ==
    CASE c = "Google" -> "google"
      [] c = "Street" -> "street"
      [] c = "View" -> "view"
      [] c = "Cafe" -> "cafe"
      [] c = "LLC" -> "llc"
      [] OTHER -> c

\* s.lower()
Lower(s) == [k \in 1..Len(s) |-> LowerPiece(s[k])]

\* s.replace(c, '')
Without(s, c) == SelectSeq(s, LAMBDA x : x # c)

\* t in s
Contains(s, t) ==
    \E k \in 0..(Len(s) - Len(t)) : SubSeq(s, k + 1, k + Len(t)) = t

RECURSIVE Strip(_)
\* s.strip()
Strip(s) ==
    IF s = <<>> THEN s
    ELSE IF Head(s) \in {" ", WideSpace} THEN Strip(Tail(s))
    ELSE IF s[Len(s)] \in {" ", WideSpace} THEN Strip(SubSeq(s, 1, Len(s) - 1))
    ELSE s

\* re.sub(r'(株式会社|有限会社|㈱|㈲|合同会社|LLC)', '', store_name).strip()
CleanName(store_name) ==
    Strip(SelectSeq(store_name, LAMBDA x : x \notin {Kabushiki, "LLC"}))

\* the list owner_names of _get_photos
OwnerNames(store_name) ==
    <<Lower(store_name), Lower(Without(store_name, " ")),
      Lower(Without(store_name, WideSpace))>>
        \o (IF CleanName(store_name) # <<>> THEN <<Lower(CleanName(store_name))>>
            ELSE <<>>)

\* author.lower().replace(' ', '').replace('　', '')
AuthorLower(author) == Without(Without(Lower(author), " "), WideSpace)

\* the test that keeps the platform and street view from being the owner
IsPlatform(author) ==
    \/ Contains(author, <<StreetViewJa>>)
    \/ Contains(AuthorLower(author), <<"street", " ", "view">>)
    \/ AuthorLower(author) = <<"google">>

\* some owner name is in author_lower, or author_lower in some owner name
NameMatches(author, store_name) ==
    \E n \in 1..Len(OwnerNames(store_name)) :
        \/ Contains(AuthorLower(author), OwnerNames(store_name)[n])
        \/ Contains(OwnerNames(store_name)[n], AuthorLower(author))

\* is_owner for one photo
IsOwner(author, store_name) ==
    /\ author # <<>>
    /\ ~IsPlatform(author)
    /\ NameMatches(author, store_name)

\* the author texts of SpecOwner (read with .text.strip())
AuthorWords == {"Google", "Street", "View", "Cafe", " ", StreetViewJa}
Authors ==
    {a \in UNION {[1..n -> AuthorWords] : n \in 0..MaxAuthorLen} : Strip(a) = a}

\* the listing titles of SpecOwner
StoreNames ==
    {<<"Cafe">>, <<"Google">>, <<"Google", " ", "Cafe">>,
     <<"Street", " ", "View", " ", "Cafe">>, <<"View", WideSpace, "Cafe">>,
     <<Kabushiki, " ", "Cafe">>, <<Kabushiki>>}

InitOwner ==
    /\ AtRest
    /\ pc = "owner_call"
    /\ filters = <<>>
    /\ data = NoData
    /\ now = Today
    /\ event = "init"
    /\ args \in [author : Authors, store_name : StoreNames]
    /\ result = FALSE
    /\ frame = <<>>
    /\ view = "viewer"

\* the owner test of the photo loop of _get_photos
owner_test ==
    /\ pc = "owner_call"
    /\ result' = IsOwner(args.author, args.store_name)
    /\ pc' = "owner_done"
    /\ event' = "classified"
    /\ UNCHANGED <<restv, filters, data, now, args, frame, view>>

NextOwner == owner_test

SpecOwner == InitOwner /\ [][NextOwner]_vars

(* ---------------------- _close_extra_tabs on its own ------------------ *)
\* The browser as _close_extra_tabs finds it (args) and as it is (frame):
\* driver.window_handles in order, the focused handle; frame also holds the
\* locals main and the handles the loop has yet to visit, and whether a
\* driver call has failed.
InitTabs ==
    /\ AtRest
    /\ pc = "tabs_call"
    /\ filters = <<>>
    /\ data = NoData
    /\ now = Today
    /\ event = "init"
    /\ args \in {b \in [window_handles : UNION {[1..n -> 1..MaxTabs] : n \in 1..MaxTabs},
                        focus : 1..MaxTabs] :
                    /\ \A a, c \in DOMAIN b.window_handles :
                          a # c => b.window_handles[a] # b.window_handles[c]
                    /\ \E a \in DOMAIN b.window_handles : b.window_handles[a] = b.focus}
    /\ result = "running"
    /\ frame = [window_handles |-> args.window_handles, focus |-> args.focus,
                main |-> 0, rest |-> <<>>, failed |-> FALSE]
    /\ view = "overview"

\* `except: pass`: a failed driver call ends _close_extra_tabs quietly
Swallowed(f) == [f EXCEPT !.failed = TRUE, !.rest = <<>>]

\* if len(self.driver.window_handles) > 1: main = ...[0]; for h in ...[1:]
tabs_enter ==
    /\ pc = "tabs_call"
    /\ \/ /\ frame' = Swallowed(frame)
          /\ pc' = "tabs_done" /\ result' = "returned" /\ event' = "handles_fail"
       \/ /\ Len(frame.window_handles) > 1
          /\ frame' = [frame EXCEPT !.main = frame.window_handles[1],
                                    !.rest = Tail(frame.window_handles)]
          /\ pc' = "tabs_loop" /\ event' = "extra_tabs" /\ UNCHANGED result
       \/ /\ Len(frame.window_handles) <= 1
          /\ pc' = "tabs_done" /\ result' = "returned" /\ event' = "one_tab"
          /\ UNCHANGED frame
    /\ UNCHANGED <<restv, filters, data, now, args, view>>

\* self.driver.switch_to.window(h); self.driver.close()
tabs_close ==
    /\ pc = "tabs_loop"
    /\ frame.rest # <<>>
    /\ LET h == Head(frame.rest) IN
          \/ /\ frame' = Swallowed(frame)
             /\ pc' = "tabs_done" /\ result' = "returned" /\ event' = "switch_fails"
          \/ /\ frame' = Swallowed([frame EXCEPT !.focus = h])
             /\ pc' = "tabs_done" /\ result' = "returned" /\ event' = "close_fails"
          \/ /\ frame' = [frame EXCEPT
                             !.focus = h, !.rest = Tail(@),
                             !.window_handles = SelectSeq(@, LAMBDA x : x # h)]
             /\ event' = "closed_tab" /\ UNCHANGED <<pc, result>>
    /\ UNCHANGED <<restv, filters, data, now, args, view>>

\* a mutant of Refocus: the focus stays on the handle closed last
Refocus_Stays(f) == f

\* self.driver.switch_to.window(main)
Refocus(f) == [f EXCEPT !.focus = f.main]

\* the end of the loop, the switch back to main and the return
tabs_refocus ==
    /\ pc = "tabs_loop"
    /\ frame.rest = <<>>
    /\ \/ frame' = Swallowed(frame) /\ event' = "refocus_fails"
       \/ frame' = Refocus(frame) /\ event' = "refocused"
    /\ pc' = "tabs_done"
    /\ result' = "returned"
    /\ UNCHANGED <<restv, filters, data, now, args, view>>

SpecTabs == InitTabs /\ [][tabs_enter \/ tabs_close \/ tabs_refocus]_vars

(* --------------------- _get_latest_updates on its own ----------------- *)
\* The locals of _get_latest_updates: n = min(len(post_buttons), MAX_UPDATES),
\* idx, latest_date and the number of updates; and as history the length
\* of current_buttons read last, the posts clicked, and the date read from
\* the post at index 0.  A date text is 0 (empty) or, for the post at index
\* k, k + 1.
InitUpdates ==
    /\ AtRest
    /\ pc = "up_call"
    /\ filters = <<>>
    /\ data = NoData
    /\ now = Today
    /\ event = "init"
    /\ args = <<>>
    /\ result = <<>>
    /\ frame = [n |-> 0, idx |-> 0, latest_date |-> 0, updates |-> 0,
                live |-> 0, clicks |-> 0, first_date |-> 0]
    /\ view = "overview"

\* return latest_date, "\n---\n".join(updates[:MAX_UPDATES])
UpdatesReturn(f) ==
    [latest_date |-> f.latest_date, updates |-> Min(f.updates, MAX_UPDATES)]

\* the entry check and post_buttons
up_enter ==
    /\ pc = "up_call"
    /\ IF is_stopped
       THEN /\ pc' = "up_done" /\ event' = "stopped_updates"
            /\ result' = [latest_date |-> 0, updates |-> 0]
            /\ polledFalse' = TRUE /\ UNCHANGED frame
       ELSE /\ UNCHANGED polledFalse
            /\ \/ /\ pc' = "up_done" /\ event' = "buttons_raise"
                  /\ result' = UpdatesReturn(frame) /\ UNCHANGED frame
               \/ /\ \E len \in 0..MaxButtons :
                        frame' = [frame EXCEPT !.n = Min(len, MAX_UPDATES)]
                  /\ pc' = "up_loop" /\ event' = "post_buttons"
                  /\ UNCHANGED result
    /\ UNCHANGED <<stop_flag, callerv, filters, data, now, args, view>>

\* a mutant of LatestAfter: the date of any post replaces latest_date
LatestAfter_AnyPost(latest_date, pos, date) ==
    IF date # 0 THEN date ELSE latest_date

\* if idx == 0 and date: latest_date = date (pos: the value of idx)
LatestAfter(latest_date, pos, date) ==
    IF pos = 0 /\ date # 0 THEN date ELSE latest_date

\* one iteration of the post loop, or its end and the return
up_post ==
    /\ pc = "up_loop"
    /\ IF frame.idx >= frame.n
       THEN /\ pc' = "up_done" /\ event' = "posts_done"
            /\ result' = UpdatesReturn(frame)
            /\ UNCHANGED <<frame, polledFalse>>
       ELSE IF is_stopped
       THEN /\ pc' = "up_done" /\ event' = "stopped_posts"
            /\ result' = UpdatesReturn(frame)
            /\ polledFalse' = TRUE /\ UNCHANGED frame
       ELSE /\ UNCHANGED polledFalse
            /\ \/ \* the re-query or the click raises: `except: ... continue`
                  /\ frame' = [frame EXCEPT !.idx = @ + 1]
                  /\ event' = "post_raises" /\ UNCHANGED <<pc, result>>
               \/ \E len \in 0..MaxButtons :
                     IF frame.idx >= len
                     THEN /\ frame' = [frame EXCEPT !.live = len]
                          /\ pc' = "up_done" /\ event' = "out_of_range"
                          /\ result' = UpdatesReturn(frame)
                     ELSE \E date \in {0, frame.idx + 1}, content \in BOOLEAN :
                             /\ frame' =
                                  [frame EXCEPT
                                     !.live = len, !.idx = @ + 1, !.clicks = @ + 1,
                                     !.first_date = IF frame.idx = 0 THEN date ELSE @,
                                     !.latest_date = LatestAfter(@, frame.idx, date),
                                     !.updates = IF content THEN @ + 1 ELSE @]
                             /\ event' = "post" /\ UNCHANGED <<pc, result>>
    /\ UNCHANGED <<stop_flag, callerv, filters, data, now, args, view>>

SpecUpdates == InitUpdates /\ [][stop \/ up_enter \/ up_post]_vars

(* -------------------------- _get_photos on its own -------------------- *)
\* The locals of _get_photos in frame: prev_count, stable_count and
\* scroll_attempt (iterations begun) of the thumbnail loop; photo_items (its
\* length), photos_to_check, i, owner_count, user_count and all_dates of
\* the photo loop; and as history the latest thumbnail counts (window, which
\* starts with the initial prev_count), whether the viewer was opened and
\* whether closing it was attempted.
PhotosLocals ==
    [prev_count |-> 0, stable_count |-> 0, scroll_attempt |-> 0, window |-> <<0>>,
     photo_items |-> 0, photos_to_check |-> 0, i |-> 0, owner_count |-> 0,
     user_count |-> 0, all_dates |-> <<>>, opened |-> FALSE, closed |-> FALSE]

\* f"{ratio:.0f}%" for ratio = (owner_count / total_checked) * 100: rounded
\* to the nearest integer, a tie to the even one
OwnerRatio(owner_count, total_checked) ==
    LET q == (owner_count * 100) \div total_checked
        r == (owner_count * 100) % total_checked
    IN  Percent(IF 2 * r > total_checked \/ (2 * r = total_checked /\ q % 2 = 1)
                THEN q + 1 ELSE q)

\* the dict `result` of _get_photos at its start
PhotoDefaults ==
    [owner_count |-> 0, user_count |-> 0, owner_ratio |-> Percent(0),
     latest_date |-> DateEmpty]

\* a mutant of PhotoStats: the counts gathered so far are dropped
PhotoStats_Defaults(f) == PhotoDefaults

\* the dict `result` after the photo loop
PhotoStats(f) ==
    [owner_count |-> f.owner_count, user_count |-> f.user_count,
     owner_ratio |-> IF f.owner_count + f.user_count > 0
                     THEN OwnerRatio(f.owner_count, f.owner_count + f.user_count)
                     ELSE Percent(0),
     latest_date |-> NewestPhotoDate(f.all_dates)]

InitPhotos ==
    /\ AtRest
    /\ pc = "ph_call"
    /\ filters = <<>>
    /\ data = NoData
    /\ now = Today
    /\ event = "init"
    /\ args = <<>>
    /\ result = PhotoDefaults
    /\ frame = PhotosLocals
    /\ view = "overview"

\* `return result` before the photo loop, and the outer `except`
PhotosGiveUp(ev) ==
    /\ pc' = "ph_done" /\ event' = ev /\ result' = PhotoDefaults
    /\ UNCHANGED <<frame, view>>

\* _get_photos up to the thumbnail loop: the five ways to open the viewer
ph_enter ==
    /\ pc = "ph_call"
    /\ IF is_stopped
       THEN PhotosGiveUp("stopped_photos") /\ polledFalse' = TRUE
       ELSE /\ UNCHANGED polledFalse
            /\ \/ PhotosGiveUp("not_opened")
               \/ /\ pc' = "ph_scroll" /\ event' = "viewer" /\ view' = "viewer"
                  /\ frame' = [frame EXCEPT !.opened = TRUE]
                  /\ UNCHANGED result
    /\ UNCHANGED <<stop_flag, callerv, filters, data, now, args>>

\* a mutant of ThumbStable: a changed count does not reset the streak
ThumbStable_NoReset(stable_count, prev, current_count) ==
    IF current_count = prev THEN stable_count + 1 ELSE stable_count

\* stable_count after an iteration that counted current_count thumbnails
ThumbStable(stable_count, prev, current_count) ==
    IF current_count = prev THEN stable_count + 1 ELSE 0

\* the locals when the thumbnail loop is left
ThumbsLoaded(f) ==
    [f EXCEPT !.prev_count = 0, !.stable_count = 0, !.window = <<0>>]

\* one iteration of the thumbnail loop, or its end after 15 iterations
ph_scroll ==
    /\ pc = "ph_scroll"
    /\ IF frame.scroll_attempt >= THUMB_SCROLLS
       THEN /\ pc' = "ph_first" /\ event' = "thumbs_exhausted"
            /\ frame' = ThumbsLoaded(frame)
            /\ UNCHANGED <<polledFalse, result, view>>
       ELSE IF is_stopped
       THEN PhotosGiveUp("stopped_thumbs") /\ polledFalse' = TRUE
       ELSE /\ UNCHANGED polledFalse
            /\ \/ PhotosGiveUp("thumbs_raise")
               \/ \E current_count \in 0..MaxCount :
                     LET st == ThumbStable(frame.stable_count, frame.prev_count,
                                           current_count)
                         w == Append(frame.window, current_count)
                         f == [frame EXCEPT
                                  !.scroll_attempt = @ + 1,
                                  !.stable_count = st,
                                  !.prev_count = current_count,
                                  !.window = SubSeq(w, Len(w) - Min(Len(w), THUMB_STABLE + 1) + 1,
                                                    Len(w))]
                     IN  /\ IF st >= THUMB_STABLE
                            THEN pc' = "ph_first" /\ event' = "thumbs_stable"
                            ELSE pc' = "ph_scroll" /\ event' = "thumbs_scrolled"
                         /\ frame' = f
                         /\ UNCHANGED <<result, view>>
    /\ UNCHANGED <<stop_flag, callerv, filters, data, now, args>>

\* the thumbnail counts the final query of SpecPhotos finds
ThumbCounts ==
    {0, 1, 2, MAX_PHOTOS - 1, MAX_PHOTOS, MAX_PHOTOS + 1, MAX_PHOTO_THUMBNAILS + 1}

\* a mutant of PhotosToCheck: every thumbnail is opened
PhotosToCheck_All(count) == count

\* photos_to_check = min(min(len(photo_items), MAX_PHOTO_THUMBNAILS), MAX_PHOTOS)
PhotosToCheck(count) == Min(Min(count, MAX_PHOTO_THUMBNAILS), MAX_PHOTOS)

\* the final thumbnail count and the click on the first photo
ph_first ==
    /\ pc = "ph_first"
    /\ \/ PhotosGiveUp("items_raise")
       \/ \E count \in ThumbCounts :
             IF Min(count, MAX_PHOTO_THUMBNAILS) = 0
             THEN PhotosGiveUp("no_thumbnails")
             ELSE \/ PhotosGiveUp("first_click_fails")
                  \/ /\ frame' = [ThumbsLoaded(frame) EXCEPT
                                     !.scroll_attempt = 0, !.photo_items = count,
                                     !.photos_to_check = PhotosToCheck(count)]
                     /\ pc' = "ph_loop" /\ event' = "first_photo"
                     /\ UNCHANGED <<result, view>>
    /\ UNCHANGED <<restv, filters, data, now, args>>

\* the date shown with the photo at index k
DateOfPhoto(k) == DateAbs(2021 + (k % 3), 1 + k)

\* after the photo loop: the stats, the attempt to close the viewer and to
\* go back to the overview tab, and the return
PhotosFinish(f, ev) ==
    /\ pc' = "ph_done" /\ event' = ev
    /\ result' = PhotoStats(f)
    /\ frame' = [f EXCEPT !.closed = TRUE]
    /\ view' \in {"overview", "viewer"}

\* one iteration of the photo loop, or its end
ph_photo ==
    /\ pc = "ph_loop"
    /\ IF frame.i >= frame.photos_to_check
       THEN PhotosFinish(frame, "photos_done") /\ UNCHANGED polledFalse
       ELSE IF is_stopped
       THEN PhotosFinish(frame, "stopped_photo_loop") /\ polledFalse' = TRUE
       ELSE /\ UNCHANGED polledFalse
            /\ \E author \in {"", "owner", "visitor"}, dated \in BOOLEAN :
                  IF author = "" /\ ~dated
                  THEN PhotosFinish(frame, "no_metadata")
                  ELSE LET f == [frame EXCEPT
                                    !.i = @ + 1,
                                    !.all_dates = IF dated
                                                  THEN Append(@, DateOfPhoto(frame.i))
                                                  ELSE @,
                                    !.owner_count = IF author = "owner" THEN @ + 1 ELSE @,
                                    !.user_count = IF author = "owner" THEN @ ELSE @ + 1]
                       IN  \/ /\ frame' = f /\ event' = "photo"
                              /\ UNCHANGED <<pc, result, view>>
                           \/ /\ frame.i < frame.photos_to_check - 1
                              /\ PhotosFinish(f, "not_moved")
    /\ UNCHANGED <<stop_flag, callerv, filters, data, now, args>>

SpecPhotos == InitPhotos /\ [][stop \/ ph_enter \/ ph_scroll \/ ph_first \/ ph_photo]_vars

(* --------------------------- SpecExecutor ----------------------------- *)
\* ScrapingExecutor: handle_request and stop run on the thread of the client,
\* and every request starts a thread of its own on _execute_scraping.  A
\* thread is cut at each read or write of a field of the executor; the run of
\* its scraper is followed only through what the executor sees of it: the
\* polls of is_running, the calls of the two callbacks, and how it ends.
\* threads[t] is the thread of task_id t:
\*   pc           "execute", "poll" (inside scraper.run, at a poll), "ran",
\*                "inner_finally", "outer_finally", "done"
\*   keywords     the request has a non-empty keyword list
\*   driver       the driver of the thread's scraper: "None" or "open"
\*   stop_called  history: stop() was called while the scraper was running
\*   polled       history: what the first poll after that stop() returned:
\*                "true" or "false" ("none": no poll yet)
runv == <<pc, inputs, driver, result_count, raising, ret, idx, itemv, scrollv,
          postv, histv, polledFalse, event, collectv, unitv>>

InitExecutor ==
    /\ AtRest
    /\ pc = "executor"
    /\ filters = <<>>
    /\ data = NoData
    /\ now = Today
    /\ event = "init"
    /\ args = <<>>
    /\ result = <<>>
    /\ frame = <<>>
    /\ view = "overview"

\* the client's send_progress, send_result, send_completed, send_stopped
\* and send_error, called for task_id in this order: each report is made and
\* the call returns
Send(task_id, kinds) ==
    reports' = [reports EXCEPT ![task_id] = @ \o kinds]

\* threading.Thread(target=self._execute_scraping, ...)
NewThread(kw) ==
    [pc |-> "execute", keywords |-> kw, driver |-> "None",
     stop_called |-> FALSE, polled |-> "none"]

\* handle_request, each request with a task_id of its own
handle_request ==
    /\ Len(threads) < MaxTasks
    /\ \E kw \in BOOLEAN :
          /\ current_task_id' = Len(threads) + 1
          /\ is_running' = TRUE
          /\ stop_flag' = FALSE
          /\ threads' = Append(threads, NewThread(kw))
          /\ reports' = Append(reports, <<>>)
    /\ UNCHANGED <<current_scraper, runv>>

\* a thread whose scraper is inside run
InRun(th) == th.pc = "poll"

\* stop: the flag, then the browser of the scraper _current_scraper holds
executor_stop ==
    /\ stop_flag' = TRUE
    /\ is_running' = FALSE
    /\ threads' = [t \in DOMAIN threads |->
                      [threads[t] EXCEPT
                          !.driver = IF t = current_scraper THEN "None" ELSE @,
                          !.stop_called = @ \/ InRun(threads[t])]]
    /\ UNCHANGED <<current_task_id, current_scraper, reports, runv>>

\* `except Exception as e: ... self.client.send_error(task_id, str(e))`
OnException_Twice == <<"error", "error">>

OnException == <<"error">>

\* _execute_scraping up to the call of scraper.run in _run_google_maps: the
\* import raises, the keyword list is empty, the constructor raises, or run
\* is entered
th_enter ==
    \E t \in DOMAIN threads :
       /\ threads[t].pc = "execute"
       /\ \/ /\ Send(t, OnException)
             /\ threads' = [threads EXCEPT ![t].pc = "outer_finally"]
             /\ UNCHANGED current_scraper
          \/ /\ ~threads[t].keywords
             /\ Send(t, <<"error">>)
             /\ threads' = [threads EXCEPT ![t].pc = "outer_finally"]
             /\ UNCHANGED current_scraper
          \/ /\ threads[t].keywords
             /\ Send(t, OnException)
             /\ threads' = [threads EXCEPT ![t].pc = "inner_finally"]
             /\ UNCHANGED current_scraper
          \/ /\ threads[t].keywords
             /\ current_scraper' = t
             /\ threads' = [threads EXCEPT ![t].pc = "poll", ![t].driver = "open"]
             /\ UNCHANGED reports
       /\ UNCHANGED <<stop_flag, current_task_id, is_running, runv>>

\* the calls of on_progress and on_result so far, of all threads
RECURSIVE CallbacksOf(_)
CallbacksOf(t) ==
    IF t = 0 THEN 0
    ELSE CallbacksOf(t - 1)
         + Cardinality({n \in DOMAIN reports[t] : reports[t][n] \in {"progress", "result"}})
Callbacks == CallbacksOf(Len(reports))

\* what a scraper may call between two polls
CallbackRuns ==
    {cb \in {<<>>, <<"progress">>, <<"result">>, <<"progress", "result">>} :
        Callbacks + Len(cb) <= MaxReports}

\* def is_running(): return not self._stop_flag, as the scraper polls it, and
\* the scraper up to its next poll: a scraper that reads false returns its
\* count; one that reads true calls its callbacks and comes to its next poll,
\* returns at the end of its work, or an exception leaves run
th_poll ==
    \E t \in DOMAIN threads :
       /\ threads[t].pc = "poll"
       /\ LET observed == ~stop_flag
              th == [threads[t] EXCEPT
                        !.polled = IF @ = "none" /\ threads[t].stop_called
                                   THEN (IF observed THEN "true" ELSE "false")
                                   ELSE @]
          IN  IF ~observed
              THEN /\ threads' = [threads EXCEPT
                                     ![t] = [th EXCEPT !.pc = "ran", !.driver = "None"]]
                   /\ UNCHANGED reports
              ELSE \E cb \in CallbackRuns :
                      \/ /\ threads' = [threads EXCEPT ![t] = th]
                         /\ Send(t, cb)
                      \/ /\ threads' = [threads EXCEPT
                                           ![t] = [th EXCEPT !.pc = "ran", !.driver = "None"]]
                         /\ Send(t, cb)
                      \/ /\ threads' = [threads EXCEPT
                                           ![t] = [th EXCEPT !.pc = "inner_finally"]]
                         /\ Send(t, cb \o OnException)
       /\ UNCHANGED <<stop_flag, current_task_id, is_running, current_scraper, runv>>

\* if not self._stop_flag: send_completed  else: send_stopped
RunReport(flag) == IF ~flag THEN "completed" ELSE "stopped"

th_report ==
    \E t \in DOMAIN threads :
       /\ threads[t].pc = "ran"
       /\ Send(t, <<RunReport(stop_flag)>>)
       /\ threads' = [threads EXCEPT ![t].pc = "inner_finally"]
       /\ UNCHANGED <<stop_flag, current_task_id, is_running, current_scraper, runv>>

\* _run_google_maps: finally: self._current_scraper = None
th_inner_finally ==
    \E t \in DOMAIN threads :
       /\ threads[t].pc = "inner_finally"
       /\ current_scraper' = 0
       /\ threads' = [threads EXCEPT ![t].pc = "outer_finally"]
       /\ UNCHANGED <<stop_flag, current_task_id, is_running, reports, runv>>

\* _execute_scraping: finally: self._is_running = False
th_outer_finally ==
    \E t \in DOMAIN threads :
       /\ threads[t].pc = "outer_finally"
       /\ is_running' = FALSE
       /\ threads' = [threads EXCEPT ![t].pc = "done"]
       /\ UNCHANGED <<stop_flag, current_task_id, current_scraper, reports, runv>>

SpecExecutor ==
    InitExecutor /\ [][handle_request \/ executor_stop \/ th_enter \/ th_poll
                       \/ th_report \/ th_inner_finally \/ th_outer_finally]_vars

(* ============================ the claims ============================== *)
Terminated == pc \in {"returned", "raised"}

\* C1: when run returns, the integer it returns is the number of times the
\* result callback was invoked during the run.
C1_ReturnCountsCallbacks ==
    pc = "returned" => ret = BagCardinality(emitted)

\* a cancelled run that had invoked the callback twice has returned
C1_Witness ==
    pc = "returned" /\ polledFalse /\ BagCardinality(emitted) = 2

\* C2 (as claimed): within one run no two records handed to the result
\* callback have the same key title + "__" + address, across keywords too.
C2_NoKeyEmittedTwice ==
    \A k \in BagToSet(emitted) : CopiesIn(k, emitted) = 1

\* C3 (as claimed): once a poll of is_running_check has returned false, the
\* run navigates no more, invokes the result callback no more and its
\* accepted count stays what it was.
C3_NothingAfterFalsePoll ==
    [][polledFalse =>
          /\ navs' = navs
          /\ emitted' = emitted
          /\ result_count' = result_count]_vars

\* C4 (as claimed): run never raises to its caller.
C4_RunNeverRaises == pc # "raised"

\* C5: the result callback is invoked, and the count raised, only for the
\* record in hand, only when its title is not empty and _apply_filters
\* accepted it, once, and the record is gone afterwards.
C5_OnlyAcceptedOnce ==
    [][(emitted' # emitted \/ result_count' # result_count) =>
          /\ pc = "record"
          /\ data.title # ""
          /\ ApplyFilters(data, filters, now) = "accept"
          /\ emitted' = emitted (+) SetToBag({Key(data)})
          /\ result_count' = result_count + 1
          /\ pc' \in {"items", "finally"}
          /\ pc' = "items" => data' = NoData /\ i' = i + 1]_vars

\* a record was emitted under filters that can reject, after another
\* candidate of the same keyword was left without emission
C5_Witness ==
    /\ event = "emitted" /\ filters # <<>>
    /\ i = 2 /\ BagCardinality(emitted) = 1

\* C6: for the current keyword, the k-th call of the progress callback has
\* the arguments (k, total), total being the number of candidates; every
\* candidate whose page was navigated to, whatever came of it, has exactly
\* one call, made before the navigation.
C6_ProgressPerAttempt ==
    /\ \A k \in 1..Len(progress) :
          progress[k] = [cur |-> k, total |-> Len(results)]
    /\ Len(progress) <= Len(results)
    /\ \A n \in 2..Len(navs) :
          /\ navs[n] = n - 1
          /\ Cardinality({k \in 1..Len(progress) : progress[k].cur = navs[n]}) = 1

\* the navigation to the second candidate failed after the first one's had
\* succeeded, and both have their progress call
C6_Witness ==
    event = "get_fails" /\ Len(progress) = 2 /\ Len(navs) = 3

\* C7: the browser is started at most once, held while the keyword loop
\* runs, and when run has returned or raised, every browser started has
\* been quit once and no handle is left, also when quit failed.
C7_BrowserReleased ==
    /\ opened <= 1 /\ quits <= opened
    /\ pc \notin {"start", "finally", "returned", "raised"} =>
          driver = "open" /\ opened = 1 /\ quits = 0
    /\ Terminated => driver = "None" /\ quits = opened

\* an exception left the keyword loop and quit failed as well
C7_Witness ==
    pc = "raised" /\ event = "quit_failed" /\ opened = 1 /\ navs # <<>>

\* C10: a feed that never appears makes _collect_results return [] and the
\* run go on with the next keyword; a title that is still missing after
\* the 60th poll makes _extract_detail return no record, and the loop goes
\* on with the next candidate; neither emits anything nor raises.  (A
\* step that leaves stop_flag alone is a step of the run.)
C10_StructuralFailureSkips ==
    [][/\ (pc = "keywords" /\ event' = "feed_timeout" /\ stop_flag' = stop_flag) =>
             /\ results' = <<>>
             /\ pc' = "keywords" /\ idx' = idx + 1
             /\ emitted' = emitted /\ result_count' = result_count /\ ~raising'
       /\ (pc = "title" /\ pc' = "titled" /\ data'.title = "") =>
             attempt + 1 = 60
       /\ (pc = "titled" /\ data.title = "" /\ stop_flag' = stop_flag) =>
             /\ pc' = "items" /\ i' = i + 1 /\ event' = "title_timeout"
             /\ emitted' = emitted /\ result_count' = result_count /\ ~raising'
      ]_vars

\* the first candidate's title never appeared and a second candidate is
\* left to go on with
C10_Witness ==
    event = "title_timeout" /\ i = 1 /\ Len(results) = 2

\* the scroll step at position j of a sequence of observed counts left the
\* count as it was (the first step never does: prev_count starts at -1)
SameCount(seq, j) == j > 1 /\ seq[j] = seq[j - 1]

\* the number of steps at the end of seq that all left the count as it was
Streak(seq) ==
    Cardinality({k \in 1..Len(seq) : \A j \in k..Len(seq) : SameCount(seq, j)})

\* C8: in the scroll loop, stable is the number of latest scroll steps in a
\* row that left the link count unchanged (so a change resets it to 0), and
\* a loop that was not cancelled has ended exactly when that number first
\* was 5.
C8_StabilityStreak ==
    /\ pc = "scroll" => stable = Streak(counts) /\ stable < 5
    /\ (pc \in {"links", "collected"} /\ ~polledFalse /\ event # "feed_timeout") =>
          /\ Streak(counts) = 5
          /\ \A n \in 0..(Len(counts) - 1) : Streak(SubSeq(counts, 1, n)) < 5

\* the loop ended after a streak of 1 had been reset by a changed count
C8_Witness ==
    /\ pc = "collected" /\ ~polledFalse /\ Len(counts) = 8
    /\ counts[2] = counts[1] /\ counts[3] # counts[2]

\* C9: the list _collect_results returns has no two entries with the same
\* href, only entries of links without the sponsored badge, at most 100
\* entries, and its entries stand in page order, each for the first link
\* without badge that has its href.  (In SpecCollect a link's name is its
\* position on the page.)
C9_CollectedList ==
    (pc = "collected" /\ event = "collected") =>
        /\ \A a, b \in 1..Len(results) :
              a # b => results[a].href # results[b].href
        /\ \A a \in 1..Len(results) :
              /\ results[a].name \in 1..Len(page)
              /\ page[results[a].name].href = results[a].href
              /\ ~page[results[a].name].sponsored
              /\ \A k \in 1..(results[a].name - 1) :
                    page[k].sponsored \/ page[k].href # results[a].href
        /\ Len(results) <= 100
        /\ \A a, b \in 1..Len(results) :
              a < b => results[a].name < results[b].name

\* a page of 103 links with a sponsored link and a repeated href gave a
\* list cut to 100 entries
C9_Witness ==
    /\ pc = "collected" /\ event = "collected"
    /\ Len(page) = 103 /\ Len(results) = 100
    /\ page[100].sponsored /\ page[2].href = page[1].href


(* ------------------------------ filters ------------------------------- *)
Filtered == pc = "filter_done"

\* C12: _apply_filters accepts a record iff each of the four checks, taken
\* on its own, accepts it; unrecognized keys change nothing, and criteria
\* without any of the four keys accept every record.
C12_FourIndependentChecks ==
    Filtered =>
        /\ result = "accept" <=>
               \A key \in FilterKeys :
                   ApplyFilters(data, Only(filters, {key}), now) = "accept"
        /\ result = ApplyFilters(data, Only(filters, FilterKeys), now)
        /\ DOMAIN filters \cap FilterKeys = {} => result = "accept"

C12_Witness ==
    /\ Filtered
    /\ DOMAIN filters = FilterKeys \cup {"area"}
    /\ filters["reply"] = 1 /\ filters["photo"] = 2
    /\ filters["min_rating"] = 30 /\ filters["max_reviews"] = 5
    /\ data.latest_date = DateAbs(2024, 12)
    /\ result = "accept"

\* what the reply criterion asks of the record in a state of SpecFilters
ReplyOk ==
    LET r == IF "reply" \in DOMAIN filters THEN filters["reply"] ELSE 0
        c == data.owner_reply_count
    IN  (r = 1 => c > 0) /\ (r = 2 => c = 0)

\* C13: with reply = 1 the reply check accepts iff ownerReplyCount > 0, with
\* reply = 2 iff ownerReplyCount = 0, with reply = 0 always: a record that
\* fails it is rejected, and with no other criterion it decides the verdict.
C13_ReplyFilter ==
    Filtered =>
        /\ ~ReplyOk => result = "reject"
        /\ DOMAIN filters \subseteq {"reply"} => (result = "accept" <=> ReplyOk)

C13_Witness ==
    /\ Filtered
    /\ filters = ("reply" :> 2)
    /\ data.owner_reply_count = 1
    /\ result = "reject"

\* the photo criterion is 1 or 2 and the latest photo date of the record is
\* that many years old or older: N >= criterion for "N年前"; for "YYYY年MM月"
\* (now - first day of that month).days / 365 >= criterion
PhotoTooOld ==
    LET p == IF "photo" \in DOMAIN filters THEN filters["photo"] ELSE 0
        ld == data.latest_date
    IN  /\ p \in {1, 2}
        /\ \/ ld.k = "rel" /\ ld.y >= p
           \/ /\ ld.k = "abs" /\ ld.m \in 1..12
              /\ Ordinal(now.y, now.m, now.d) - Ordinal(ld.y, ld.m, 1) >= 365 * p

\* C14: the photo check rejects a relative date "N年前" iff N >= 1 (photo = 1)
\* or N >= 2 (photo = 2), an absolute date "YYYY年MM月" under the same
\* thresholds on the days since the first of that month divided by 365, and
\* never a record whose date is empty or of neither form.
C14_PhotoRecency ==
    Filtered =>
        /\ result = "accept" => ~PhotoTooOld
        /\ DOMAIN filters \subseteq {"photo"} =>
              /\ result = "reject" <=> PhotoTooOld
              /\ data.latest_date.k \in {"empty", "nenmae", "other"} => result = "accept"

C14_Witness ==
    /\ Filtered
    /\ filters = ("photo" :> 2)
    /\ data.latest_date = DateAbs(2024, 11)
    /\ result = "reject"

\* C15: with only min_rating given, a record is rejected iff its rating is a
\* number strictly below min_rating; an empty or unparseable rating is not
\* rejected.
C15_MinRating ==
    Filtered /\ DOMAIN filters = {"min_rating"} =>
        (result = "reject" <=>
            data.rating.k = "num" /\ data.rating.v < filters["min_rating"])

\* C16: with only max_reviews given, whatever its value (0 included), a
\* record is rejected iff its review count is an integer strictly above
\* max_reviews; an empty or unparseable count is not rejected.
C16_MaxReviews ==
    Filtered /\ DOMAIN filters = {"max_reviews"} =>
        (result = "reject" <=>
            data.review_count.k = "num" /\ data.review_count.v > filters["max_reviews"])

(* ------------------------------ reviews ------------------------------- *)
\* C11: every loop polls the keep-running predicate at the head of each
\* iteration and, on observing false, exits without processing the item of
\* that iteration.  Here for the review loop: an iteration that begins with
\* the predicate false observes it and processes no review.
C11_LoopsPollAtHead ==
    [][pc = "rv_loop" /\ stop_flag
         /\ frame.pos < Min(Len(frame.review_elements), MAX_REVIEWS)
       => polledFalse' /\ frame'.pos = frame.pos]_vars

\* C17: whenever _get_reviews returns with zero reviews checked the ratio is
\* "0/0" (reviews tab absent and cancellation observed included); otherwise
\* it is "<ownerReplyCount>/<totalReviewsChecked>".
C17_ReplyRatio ==
    pc = "rv_done" =>
        result.reply_ratio = Fraction(result.owner_reply_count, result.total_review_count)

(* ------------------------------ website ------------------------------- *)
\* C18: the website _pick_best_url returns is never a claim link; it is a
\* surviving (normalized, non-claim) candidate with the shortest host name,
\* the earliest of those with a host of that length; and it is the empty
\* string iff no candidate survives.
C18_ShortestHost ==
    pc = "url_done" =>
        LET surviving == Cleaned(args) IN
            /\ result = EmptyUrl <=> surviving = <<>>
            /\ ~IsClaimLink(result)
            /\ result # EmptyUrl =>
                  \E k \in 1..Len(surviving) :
                      /\ result = surviving[k]
                      /\ \A j \in 1..Len(surviving) :
                            /\ Len(surviving[k].host) <= Len(surviving[j].host)
                            /\ j < k => Len(surviving[j].host) > Len(surviving[k].host)

(* --------------------------- newest photo date ------------------------ *)
\* C19: for a non-empty list of "YYYY年MM月" dates _get_newest_photo_date
\* returns an element that maximizes year * 12 + month, the first of the
\* list among those; for the empty list it returns the empty string.
C19_NewestPhotoDate ==
    pc = "date_done" =>
        IF args = <<>> THEN result = DateEmpty
        ELSE \E k \in 1..Len(args) :
                /\ result = args[k]
                /\ \A j \in 1..Len(args) :
                      /\ args[j].y * 12 + args[j].m <= args[k].y * 12 + args[k].m
                      /\ j < k => args[j].y * 12 + args[j].m < args[k].y * 12 + args[k].m

C19_Witness ==
    /\ pc = "date_done"
    /\ args = <<DateAbs(2021, 3), DateAbs(2023, 11), DateAbs(2022, 1)>>
    /\ result = DateAbs(2023, 11)

(* ------------------------- photo classification ----------------------- *)
\* the author names the platform ("Google") or is a street-view attribution
\* (StreetViewJa, or "street view" in any case)
DenotesPlatform(author) ==
    \/ Contains(author, <<StreetViewJa>>)
    \/ Contains(Lower(author), <<"street", " ", "view">>)
    \/ AuthorLower(author) = <<"google">>

\* C20: an author that denotes the platform or a street-view attribution is
\* a visitor whatever the title; any other non-empty author is the owner iff
\* a name candidate of the title is in the space-stripped lower-cased author
\* or that author is in a candidate.
C20_PlatformNeverOwner ==
    pc = "owner_done" =>
        /\ DenotesPlatform(args.author) => ~result
        /\ args.author # <<>> /\ ~DenotesPlatform(args.author) =>
              (result <=> NameMatches(args.author, args.store_name))

\* C23: whenever _get_reviews has switched to the reviews tab, the detail
\* page shows the overview tab again when it returns, on every return path.
C23_BackToOverview ==
    pc = "rv_done" /\ event # "click_raises" => view = "overview"

\* C28: for every return of _get_reviews, 0 <= ownerReplyCount <=
\* totalReviewsChecked <= 5, and no more review entries are returned than
\* reviews were checked.
C28_ReviewCounts ==
    pc = "rv_done" =>
        /\ 0 <= result.owner_reply_count
        /\ result.owner_reply_count <= result.total_review_count
        /\ result.total_review_count <= 5
        /\ result.reviews <= result.total_review_count

C28_Witness ==
    /\ pc = "rv_done"
    /\ Len(frame.review_elements) > MAX_REVIEWS
    /\ "broken" \in {frame.review_elements[k] : k \in 1..MAX_REVIEWS}
    /\ result.owner_reply_count = 2
    /\ result.total_review_count = 5

(* ------------------------------- windows ------------------------------ *)
\* C27: _close_extra_tabs never raises; with more than one window handle
\* and no failing browser call exactly the first handle remains and has
\* focus; with exactly one handle nothing is closed and focus is unchanged.
C27_CloseExtraTabs ==
    /\ result \in {"running", "returned"}
    /\ pc = "tabs_done" =>
          /\ result = "returned"
          /\ Len(args.window_handles) > 1 /\ ~frame.failed =>
                /\ frame.window_handles = <<args.window_handles[1]>>
                /\ frame.focus = args.window_handles[1]
          /\ Len(args.window_handles) = 1 =>
                /\ frame.window_handles = args.window_handles
                /\ frame.focus = args.focus

C27_Witness ==
    /\ pc = "tabs_done"
    /\ Len(args.window_handles) = 3
    /\ args.focus = args.window_handles[2]
    /\ ~frame.failed
    /\ frame.window_handles = <<args.window_handles[1]>>

(* ------------------------------- posts -------------------------------- *)
\* C26: _get_latest_updates opens at most 5 posts, each one at an index
\* inside the button list it has just queried again, and stops at the first
\* index outside it; the latest date it returns is the date read from the
\* post at index 0 (empty if none was read), never that of a later post.
C26_LatestPostDate ==
    /\ [](frame.clicks <= 5)
    /\ [](pc = "up_done" => result.latest_date = frame.first_date
                            /\ result.latest_date \in {0, 1})
    /\ [][pc = "up_loop" /\ frame'.clicks > frame.clicks
            => frame.idx < frame'.live /\ frame.idx < 5]_vars
    /\ [][pc = "up_loop" /\ event' = "out_of_range"
            => pc' = "up_done" /\ frame'.clicks = frame.clicks]_vars

C26_Witness ==
    /\ pc = "up_done"
    /\ frame.clicks = 5
    /\ frame.first_date = 0
    /\ frame.updates = 5
    /\ result.latest_date = 0

(* ------------------------------- photos ------------------------------- *)
\* C21: when the photo loop of _get_photos observes the keep-running
\* predicate false after k >= 1 photos were classified, the stats returned
\* have ownerCount + userCount = k, and their ratio and latest date are
\* those of the k photos, not the defaults.
C21_PartialPhotoStats ==
    pc = "ph_done" /\ event = "stopped_photo_loop" /\ frame.i >= 1 =>
        /\ result.owner_count + result.user_count = frame.i
        /\ result.owner_count = frame.owner_count
        /\ result.owner_ratio = OwnerRatio(frame.owner_count, frame.i)
        /\ result.latest_date = NewestPhotoDate(frame.all_dates)
        /\ result # PhotoDefaults

C21_Witness ==
    /\ pc = "ph_done"
    /\ event = "stopped_photo_loop"
    /\ frame.i = 8
    /\ result.owner_count = 3
    /\ result.owner_ratio = Percent(38)
    /\ result.latest_date = DateOfPhoto(7)

\* C22: once _get_photos has opened the photo viewer, every path by which
\* it returns attempts to close the viewer and to go back to the overview
\* tab.
C22_ViewerClosed == pc = "ph_done" /\ frame.opened => frame.closed

\* C24: the thumbnail loop ends within 15 iterations, and it ends early
\* exactly at the first iteration at which the count has been unchanged for
\* 3 iterations in a row.
C24_ThumbnailLoop ==
    /\ pc \in {"ph_scroll", "ph_first"} => frame.scroll_attempt <= 15
    /\ pc = "ph_scroll" =>
          frame.stable_count = Streak(frame.window) /\ frame.stable_count < 3
    /\ pc = "ph_first" /\ event = "thumbs_stable" => Streak(frame.window) = 3
    /\ pc = "ph_first" /\ event = "thumbs_exhausted" => frame.scroll_attempt = 15

C24_Witness ==
    /\ pc = "ph_first"
    /\ event = "thumbs_stable"
    /\ frame.scroll_attempt = 15
    /\ frame.prev_count = 2

\* C25: ownerCount + userCount <= min(availableThumbnails, 20, 10) =
\* min(availableThumbnails, 10); a photo with neither author nor date is not
\* classified and ends the loop, and so does a failure to move on.
C25_PhotoCaps ==
    /\ [](pc \in {"ph_loop", "ph_done"} =>
            /\ frame.owner_count + frame.user_count <= Min(frame.photo_items, 10)
            /\ Min(Min(frame.photo_items, 20), 10) = Min(frame.photo_items, 10)
            /\ result.owner_count + result.user_count <= Min(frame.photo_items, 10))
    /\ [][pc = "ph_loop" /\ event' = "no_metadata" =>
            /\ pc' = "ph_done"
            /\ frame'.owner_count + frame'.user_count
                  = frame.owner_count + frame.user_count]_vars
    /\ [][pc = "ph_loop" /\ event' = "not_moved" => pc' = "ph_done"]_vars

C25_Witness ==
    /\ pc = "ph_done"
    /\ frame.photo_items = 21
    /\ result.owner_count + result.user_count = 10

\* the terminal reports of a task
Terminal == {"completed", "stopped", "error"}
TerminalReports(t) == {n \in DOMAIN reports[t] : reports[t][n] \in Terminal}

\* C29: a google_maps task gets exactly one terminal report (send_completed,
\* send_stopped or send_error), however its run ends: none more at any time,
\* one once the thread has left _run_google_maps's try block, and no result
\* or progress report of the task comes after it.
C29_OneTerminalReport ==
    \A t \in DOMAIN threads :
       /\ Cardinality(TerminalReports(t)) <= 1
       /\ threads[t].pc \in {"inner_finally", "outer_finally", "done"}
             => Cardinality(TerminalReports(t)) = 1
       /\ \A n \in TerminalReports(t) : n = Len(reports[t])

\* a cancelled task that had made a report, and one whose scraper raised
C29_Witness ==
    /\ Len(threads) = 2
    /\ threads[1].pc = "done" /\ threads[2].pc = "done"
    /\ threads[2].keywords
    /\ reports[1] = <<"result", "stopped">>
    /\ reports[2] = <<"error">>

\* C30: once stop() was called while the scraper of a task was running, the
\* next poll of that scraper reads is_running() false and the task never
\* reports send_completed, also when a new request is handled before the
\* thread of the task has finished.
C30_StopIsFinal ==
    \A t \in DOMAIN threads :
       threads[t].stop_called =>
          /\ threads[t].polled # "true"
          /\ \A n \in DOMAIN reports[t] : reports[t][n] # "completed"
====
